---------------------------- MODULE Spec2Model ----------------------------
(***************************************************************************)
(* The document session manager of pdfsmarteditor (src/api/deps.py,        *)
(* src/api/storage.py, src/pdfsmarteditor/core/document_manager.py).       *)
(*                                                                         *)
(* State: the in-memory cache `sessions`, the session objects it points    *)
(* to (each owns one DocumentManager and one fitz document), the sqlite    *)
(* table of SessionRecords, the content area, the "<storage_path>.tmp"     *)
(* files, the upload temp files, a wall clock, and the request handlers    *)
(* (threads) with their position in the function they execute.             *)
(*                                                                         *)
(* deps.py takes no lock anywhere, so the functions are modelled at the    *)
(* granularity of their statements that touch shared state, and the        *)
(* handlers interleave freely.                                             *)
(*                                                                         *)
(* Spec: NumWorkers handlers run concurrently and serve uploads, reads,    *)
(* downloads, deletes and sweeps of MaxShared sessions.  SpecSeq: the      *)
(* same requests and the edit routes on MaxSessions sessions, served one   *)
(* at a time.                                                              *)
(***************************************************************************)
EXTENDS Integers, FiniteSets, Sequences, TLC

\* ------------------------------------------------------------------ bounds
NumWorkers == 2     \* concurrent request handlers
MaxSessions == 2    \* session ids that uuid4 hands out
MaxShared == 1      \* of them, while request handlers run concurrently
MaxObjects == 2     \* session objects (documents opened) per process lifetime
MaxClock == 2       \* readings of datetime.now()
MaxPages == 2       \* pages of an uploaded document
MaxRestarts == 1    \* process restarts
MaxLen == 4         \* characters of an original filename

\* SESSION_TTL_HOURS, deps.py:22 (os.getenv, here configured to one hour;
\* the clock counts hours).
SESSION_TTL_HOURS == 1

Workers == 1..NumWorkers
Ids == 1..MaxSessions          \* ids create_session can generate
Objects == 1..MaxObjects
Names == {1}                   \* original filenames of uploads (already base names)
UploadPages == {0, MaxPages}   \* an upload is not a PDF or has MaxPages pages

VARIABLES
    sessions,   \* deps.sessions: id -> session object (0 = not cached)
    objs,       \* session objects: DocumentManager + cached metadata
    store,      \* storage.SessionStore: the sessions table
    content,    \* content area: the file at storage_path of each id
    tmp,        \* the file at storage_path + ".tmp" of each id
    upload,     \* TEMP_DIR/upload_<filename>
    clock,      \* datetime.now()
    nextId,     \* next id uuid4 returns
    issued,     \* ids returned to a client by a successful create_session
    restarts,   \* number of process restarts so far
    load,       \* the workload admitted: handlers serving, ids, edit requests
    paths,      \* storage paths create_session composed, in order
    wk,         \* per handler: the function it runs, its position and locals
    ev          \* the call that just returned or raised (history)

vars == <<sessions, objs, store, content, tmp, upload, clock, nextId, issued,
          restarts, load, paths, wk, ev>>

\* ------------------------------------------------------------ value shapes
NoFile == [exists |-> FALSE, mtime |-> 0, pages |-> 0]
NoRecord == [exists |-> FALSE, last_modified |-> 0]
NoObj == [sid |-> 0, open |-> FALSE, pages |-> 0, last_modified |-> 0,
          page_count |-> 0, src |-> "none"]

File(t, p) == [exists |-> TRUE, mtime |-> t, pages |-> p]

\* A file is a loadable PDF when fitz.open accepts it; pages = 0 stands for
\* bytes that are not a PDF.
Loadable(f) == f.exists /\ f.pages > 0

Idle == [op |-> "none", pc |-> "idle", sid |-> 0, ref |-> 0, doc |-> 0,
         rlm |-> 0, now |-> 0, name |-> 0, swapped |-> FALSE, mt |-> 0,
         copied |-> FALSE, err |-> "none", todo |-> {}, wrote |-> {},
         edited |-> FALSE, old |-> {}, fresh |-> {}, absent |-> FALSE,
         own |-> 0]

\* ev describes the step just taken: a call returned or raised (what, op,
\* w, sid, err and the locals mt, copied, swapped it ended with), or a step
\* inside a call that the properties refer to (what); stamped says that the
\* step wrote last_modified of the record at deps.py:159.  wrote names what
\* the function has written itself ("cache" by get_session; "tmp",
\* "content", "entry", "record" by the statements of
\* persist_session_document), absent says that the id had neither a cache
\* entry nor a record when the call began, and
\* fault is the exception its except block caught.  ref is the session
\* object the call ended with (the one get_session returns).  after marks
\* the steps of a call that no other step interrupted since create_session
\* returned id i (<<"create", i, 0>>), or since an edit request persisted
\* p pages of i and the process restarted (<<"persist", i, p>>).
NoChain == <<"none", 0, 0>>

NoEv == [what |-> "none", op |-> "none", w |-> 0, sid |-> 0, name |-> 0,
         mt |-> 0, copied |-> FALSE, swapped |-> FALSE, stamped |-> FALSE,
         err |-> "none", wrote |-> {}, fault |-> "none", ref |-> 0,
         after |-> NoChain, edited |-> FALSE, old |-> {}, fresh |-> {},
         absent |-> FALSE]

\* The previous step was a step of w in such an uninterrupted sequence.
Follows(w) == ev.what = "none" /\ ev.w = w /\ ev.after # NoChain

\* The handler w finishes its call with locals r: it returns or raises err.
Done(w, r, what, err) ==
    /\ wk' = [wk EXCEPT ![w] = Idle]
    /\ ev' = [what |-> what, op |-> r.op, w |-> w, sid |-> r.sid,
              name |-> r.name, mt |-> r.mt, copied |-> r.copied,
              swapped |-> r.swapped, stamped |-> FALSE, err |-> err,
              wrote |-> r.wrote, fault |-> r.err, ref |-> r.ref,
              after |-> IF Follows(w) THEN ev.after ELSE NoChain,
              edited |-> r.edited, old |-> r.old, fresh |-> r.fresh,
              absent |-> r.absent]

Return(w) == Done(w, wk[w], "return", "none")
Raise(w, err) == Done(w, wk[w], "raise", err)

\* A step inside a call that the properties refer to.
Note(w, what) == [NoEv EXCEPT !.what = what, !.op = wk[w].op, !.w = w,
                             !.sid = wk[w].sid]

\* The handler w moves on inside its call.
Goto(w, r) ==
    /\ wk' = [wk EXCEPT ![w] = r]
    /\ ev' = IF Follows(w) THEN [NoEv EXCEPT !.w = w, !.after = ev.after]
             ELSE NoEv

FreeObjects == {h \in Objects : objs[h] = NoObj}
NewObj == CHOOSE h \in FreeObjects : \A g \in FreeObjects : h <= g

\* No handler is serving a request while the startup hook runs.
Serving == \A w \in Workers : wk[w].op # "startup"

\* The handler w takes the next request.  Idle handlers are interchangeable,
\* so the one with the lowest number takes it.
Accepts(w) ==
    /\ wk[w].pc = "idle"
    /\ w <= load.handlers
    /\ Serving
    /\ \A v \in Workers : v < w => wk[v].pc # "idle"

\* --------------------------------------------------------------------- Init
\* The process has just started with an empty content area and store.
Boot ==
    /\ sessions = [i \in Ids |-> 0]
    /\ objs = [h \in Objects |-> NoObj]
    /\ store = [i \in Ids |-> NoRecord]
    /\ content = [i \in Ids |-> NoFile]
    /\ tmp = [i \in Ids |-> NoFile]
    /\ upload = [n \in Names |-> NoFile]
    /\ clock = 0
    /\ nextId = 1
    /\ issued = {}
    /\ restarts = 0
    /\ paths = <<>>
    /\ wk = [w \in Workers |-> Idle]
    /\ ev = NoEv

\* Handlers run concurrently and serve uploads, downloads (persist), reads,
\* deletes and sweeps of up to MaxShared sessions.
Init ==
    /\ Boot
    /\ load = [handlers |-> NumWorkers, ids |-> MaxShared, edits |-> FALSE]

\* Requests are served one at a time: the same requests and the edit routes,
\* on up to MaxSessions sessions.
InitSeq ==
    /\ Boot
    /\ load = [handlers |-> 1, ids |-> MaxSessions, edits |-> TRUE]

\* ------------------------------------------------- DocumentManager / build
\* build_session_data, deps.py:32-57: a new session object around an opened
\* document; page_count is read from the document.
BuildSessionData(i, lm, how) ==
    [sid |-> i, open |-> TRUE, pages |-> content[i].pages,
     last_modified |-> lm, page_count |-> content[i].pages, src |-> how]

\* ------------------------------------------------------------- get_session
\* Ids a client can name: the ones create_session gave out.  A deleted or
\* reaped id stays known to its client.
ClientIds == issued

\* A get_session that never finds the id in the cache.
HitNever(i) == FALSE

\* deps.py:61  session_id in sessions
Hit(i) == sessions[i] # 0

\* A request calls get_session directly (op "get"), as the first line of
\* persist_session_document (op "persist", deps.py:145), or as the first
\* line of an edit route (op "edit", routes/documents.py:117).
\* deps.py:61  if session_id not in sessions
GetCheck(w) ==
    /\ Accepts(w)
    /\ \E i \in ClientIds,
          o \in {"get", "persist"} \cup (IF load.edits THEN {"edit"} ELSE {}) :
          /\ wk' = [wk EXCEPT ![w] =
                       [Idle EXCEPT !.op = o, !.sid = i,
                                    !.absent = ~Hit(i) /\ ~store[i].exists,
                                    !.pc = IF Hit(i) THEN "g_ret" ELSE "g_load"]]
          /\ ev' = IF ev.op = "create" /\ ev.what = "return" /\ ev.sid = i
                      THEN [NoEv EXCEPT !.w = w, !.after = <<"create", i, 0>>]
                   ELSE IF ev.op = "startup" /\ ev.what = "return"
                                             /\ ev.after[1] = "persist"
                                             /\ ev.after[2] = i
                      THEN [NoEv EXCEPT !.w = w, !.after = ev.after]
                   ELSE NoEv
    /\ UNCHANGED <<load, paths, sessions, objs, store, content, tmp, upload,
                   clock, nextId, issued, restarts>>

\* A get_session that takes whatever session_store.get returned as a record.
FoundAlways(rec) == TRUE

\* deps.py:63  if not record
Found(rec) == rec.exists

\* deps.py:62-64  record = session_store.get(...); 404 when there is none
GetLoad(w) ==
    /\ wk[w].pc = "g_load"
    /\ IF Found(store[wk[w].sid])
          THEN Goto(w, [wk[w] EXCEPT !.pc = "g_build",
                                     !.rlm = store[wk[w].sid].last_modified])
          ELSE Raise(w, "404")
    /\ UNCHANGED <<load, paths, sessions, objs, store, content, tmp, upload,
                   clock, nextId, issued, restarts>>

\* deps.py:65-71  build_session_data: load_pdf opens the content file; the
\* local `record` is not read again
GetBuild(w) ==
    /\ wk[w].pc = "g_build"
    /\ LET i == wk[w].sid IN
       IF Loadable(content[i])
          THEN /\ FreeObjects # {}
               /\ objs' = [objs EXCEPT ![NewObj] =
                              BuildSessionData(i, wk[w].rlm, "hydrate")]
               /\ Goto(w, [wk[w] EXCEPT !.pc = "g_put", !.ref = NewObj,
                                        !.rlm = 0])
          ELSE /\ objs' = objs
               /\ Raise(w, "PDFLoadError")
    /\ UNCHANGED <<load, paths, sessions, store, content, tmp, upload, clock,
                   nextId, issued, restarts>>

\* deps.py:72  sessions[session_id] = session
GetPut(w) ==
    /\ wk[w].pc = "g_put"
    /\ sessions' = [sessions EXCEPT ![wk[w].sid] = wk[w].ref]
    /\ Goto(w, [wk[w] EXCEPT !.pc = "g_ret", !.wrote = @ \cup {"cache"}])
    /\ UNCHANGED <<load, paths, objs, store, content, tmp, upload, clock,
                   nextId, issued, restarts>>

\* A persist that writes the record before it swaps the file in.
PersistOrderRecordFirst ==
    <<"p_chk", "p_save", "p_now", "p_set", "p_update", "p_replace">>

\* A persist that reads the clock before it saves the document.
PersistOrderStampFirst ==
    <<"p_now", "p_chk", "p_save", "p_replace", "p_set", "p_update">>

\* A persist that saves the temporary file and never swaps it in.
PersistOrderNoSwap == <<"p_chk", "p_save", "p_now", "p_set", "p_update">>

\* A persist that stamps the cache entry before it saves the document.
PersistOrderEntryFirst ==
    <<"p_now", "p_set", "p_chk", "p_save", "p_replace", "p_update">>

\* deps.py:149-159: the statements of persist_session_document after
\* get_session, in program order.  p_chk and p_save are save_pdf
\* (document_manager.py:18-19 and 20-23).
PersistOrder == <<"p_chk", "p_save", "p_replace", "p_now", "p_set", "p_update">>

PersistPos(pc) == CHOOSE k \in 1..Len(PersistOrder) : PersistOrder[k] = pc

\* The statement after pc; "p_return" is deps.py:160.
PersistAfter(pc) ==
    IF PersistPos(pc) = Len(PersistOrder) THEN "p_return"
    ELSE PersistOrder[PersistPos(pc) + 1]

\* Where persist_session_document continues once get_session has returned.
PersistEntry == PersistOrder[1]

\* deps.py:73  return sessions[session_id]  (KeyError when it was popped)
GetRet(w) ==
    /\ wk[w].pc = "g_ret"
    /\ LET h == sessions[wk[w].sid] IN
       IF h = 0 THEN Raise(w, "KeyError")
       ELSE IF wk[w].op = "get"
               THEN Done(w, [wk[w] EXCEPT !.ref = h], "return", "none")
       ELSE IF wk[w].op = "edit"
               THEN Goto(w, [wk[w] EXCEPT !.pc = "e_edit", !.ref = h])
       ELSE Goto(w, [wk[w] EXCEPT !.pc = PersistEntry, !.ref = h,
                                  !.wrote = {}])
    /\ UNCHANGED <<load, paths, sessions, objs, store, content, tmp, upload,
                   clock, nextId, issued, restarts>>


\* ------------------------------------------------------------ storage paths
\* A path or a filename is a sequence of characters; a session id is written
\* as one character of its own (a uuid4 string holds no "/" and no ".").
Chars == {"a", ".", "/"}
Filenames == UNION {[1..n -> Chars] : n \in 0..MaxLen}

Max(S) == CHOOSE x \in S : \A y \in S : x >= y

\* posixpath.basename: i = p.rfind("/") + 1; return p[i:]
Basename(f) ==
    LET cut == {k \in 1..Len(f) : f[k] = "/"}
        i == IF cut = {} THEN 0 ELSE Max(cut)
    IN  SubSeq(f, i + 1, Len(f))

\* A sanitizer that returns the filename as given.
SanitizeFilenameKeep(f) == f

\* deps.py:28-29  sanitize_filename: os.path.basename(filename)
SanitizeFilename(f) == Basename(f)

\* storage.py:7  STORAGE_DIR, an absolute directory ("s" is any path to it)
STORAGE_DIR == <<"/", "s">>

\* pathlib's "/" operator: an absolute right operand replaces the left one,
\* any other is appended after a separator.
JoinPath(dir, name) ==
    IF name # <<>> /\ name[1] = "/" THEN name ELSE dir \o <<"/">> \o name

\* A storage filename without the session id.
StorageFilenameNoId(i, f) == SanitizeFilename(f)

\* deps.py:78-79  storage_filename = f"{session_id}_{safe_filename}"
StorageFilename(i, f) == <<ToString(i), "_">> \o SanitizeFilename(f)

\* deps.py:80  storage_path = str(STORAGE_DIR / storage_filename)
StoragePath(i, f) == JoinPath(STORAGE_DIR, StorageFilename(i, f))

\* What create_session derives from its arguments at deps.py:77-80.
Composed(i, f) == [sid |-> i, filename |-> f, path |-> StoragePath(i, f)]

\* The original filename of upload n, as the client sent it.
OriginalName(n) == <<"a">>

\* create_session's path computation alone, on any id and any filename.
ComposePath(i, f) ==
    /\ paths' = <<Composed(i, f)>>
    /\ UNCHANGED <<load, sessions, objs, store, content, tmp, upload, clock,
                   nextId, issued, restarts, wk, ev>>

\* ---------------------------------------------------------- create_session
\* routes/documents.py:48-50  the upload is written to TEMP_DIR/upload_<name>;
\* p = 0 is an upload that is not a PDF.  The id is the one uuid4 will
\* return at deps.py:77: it depends on nothing the handlers share.
StartUpload(w) ==
    /\ Accepts(w)
    /\ nextId <= load.ids
    /\ nextId' = nextId + 1
    /\ \E n \in Names, p \in UploadPages :
          /\ upload' = [upload EXCEPT ![n] = File(0, p)]
          /\ paths' = Append(paths, Composed(nextId, OriginalName(n)))
          /\ Goto(w, [Idle EXCEPT !.op = "create", !.pc = "c_copy", !.name = n,
                                  !.sid = nextId, !.own = p])
    /\ UNCHANGED <<load, sessions, objs, store, content, tmp, clock, issued,
                   restarts>>

\* deps.py:77-81  shutil.copy(file_path, storage_path).  The copy is outside
\* the try block: when it raises, nothing below runs.  A copy that fails
\* half way leaves a truncated file behind.
CreateCopy(w) ==
    /\ wk[w].pc = "c_copy"
    /\ LET i == wk[w].sid IN
       IF ~upload[wk[w].name].exists
          THEN content' = content /\ Raise(w, "FileNotFoundError")
          ELSE \/ /\ content' = [content EXCEPT ![i] =
                                   File(clock, upload[wk[w].name].pages)]
                  /\ Goto(w, [wk[w] EXCEPT !.pc = "c_build", !.copied = TRUE])
               \/ /\ content' = [content EXCEPT ![i] = File(clock, 0)]
                  /\ Raise(w, "OSError")
    /\ UNCHANGED <<load, paths, sessions, objs, store, tmp, upload, clock,
                   nextId, issued, restarts>>

\* deps.py:83-90  now = datetime.now(); build_session_data opens the copy
CreateBuild(w) ==
    /\ wk[w].pc = "c_build"
    /\ LET i == wk[w].sid IN
       IF Loadable(content[i])
          THEN /\ FreeObjects # {}
               /\ objs' = [objs EXCEPT ![NewObj] =
                              BuildSessionData(i, clock, "create")]
               /\ Goto(w, [wk[w] EXCEPT !.pc = "c_save", !.ref = NewObj,
                                        !.now = clock])
          ELSE /\ objs' = objs
               /\ Goto(w, [wk[w] EXCEPT !.pc = "c_except", !.now = clock,
                                        !.err = "PDFLoadError"])
    /\ UNCHANGED <<load, paths, sessions, store, content, tmp, upload, clock,
                   nextId, issued, restarts>>

\* deps.py:91-98  session_store.save(record); a storage error goes to except
CreateSave(w) ==
    /\ wk[w].pc = "c_save"
    /\ \/ /\ store' = [store EXCEPT ![wk[w].sid] =
                          [exists |-> TRUE, last_modified |-> wk[w].now]]
          /\ Goto(w, [wk[w] EXCEPT !.pc = "c_put"])
       \/ /\ store' = store
          /\ Goto(w, [wk[w] EXCEPT !.pc = "c_except", !.err = "StorageError"])
    /\ UNCHANGED <<load, paths, sessions, objs, content, tmp, upload, clock,
                   nextId, issued, restarts>>

\* deps.py:99  sessions[session_id] = session
CreatePut(w) ==
    /\ wk[w].pc = "c_put"
    /\ sessions' = [sessions EXCEPT ![wk[w].sid] = wk[w].ref]
    /\ Goto(w, [wk[w] EXCEPT !.pc = "c_finally"])
    /\ UNCHANGED <<load, paths, objs, store, content, tmp, upload, clock,
                   nextId, issued, restarts>>

\* An except block that leaves the copy in place.
FailedCreateContentKept(f) == f

\* deps.py:101-104  what the except block leaves at storage_path
FailedCreateContent(f) == NoFile

CreateExcept(w) ==
    /\ wk[w].pc = "c_except"
    /\ content' = [content EXCEPT ![wk[w].sid] = FailedCreateContent(@)]
    /\ Goto(w, [wk[w] EXCEPT !.pc = "c_finally"])
    /\ UNCHANGED <<load, paths, sessions, objs, store, tmp, upload, clock,
                   nextId, issued, restarts>>

\* deps.py:105-107, 100  the upload temp file is removed; return or re-raise
CreateFinally(w) ==
    /\ wk[w].pc = "c_finally"
    /\ upload' = [upload EXCEPT ![wk[w].name] = NoFile]
    /\ IF wk[w].err # "none"
          THEN issued' = issued /\ Raise(w, wk[w].err)
          ELSE issued' = issued \cup {wk[w].sid} /\ Return(w)
    /\ UNCHANGED <<load, paths, sessions, objs, store, content, tmp, clock,
                   nextId, restarts>>

\* ---------------------------------------------------------- delete_session
\* deps.py:111  if session_id in sessions
DeleteCheck(w) ==
    /\ Accepts(w)
    /\ \E i \in ClientIds :
          Goto(w, [Idle EXCEPT !.op = "delete", !.sid = i,
                     !.pc = IF sessions[i] # 0 THEN "d_pop" ELSE "d_store"])
    /\ UNCHANGED <<load, paths, sessions, objs, store, content, tmp, upload,
                   clock, nextId, issued, restarts>>

\* deps.py:112  session = sessions.pop(session_id)
DeletePop(w) ==
    /\ wk[w].pc = "d_pop"
    /\ IF sessions[wk[w].sid] = 0
          THEN sessions' = sessions /\ Raise(w, "KeyError")
          ELSE /\ sessions' = [sessions EXCEPT ![wk[w].sid] = 0]
               /\ Goto(w, [wk[w] EXCEPT !.pc = "d_close",
                                        !.ref = sessions[wk[w].sid]])
    /\ UNCHANGED <<load, paths, objs, store, content, tmp, upload, clock,
                   nextId, issued, restarts>>

\* deps.py:113-115, document_manager.py:28-31  close_document
DeleteClose(w) ==
    /\ wk[w].pc = "d_close"
    /\ objs' = [objs EXCEPT ![wk[w].ref].open = FALSE]
    /\ Goto(w, [wk[w] EXCEPT !.pc = "d_rm"])
    /\ UNCHANGED <<load, paths, sessions, store, content, tmp, upload, clock,
                   nextId, issued, restarts>>

\* deps.py:116-118  the content file is removed when it exists
DeleteRemove(w) ==
    /\ wk[w].pc = "d_rm"
    /\ content' = [content EXCEPT ![wk[w].sid] = NoFile]
    /\ Goto(w, [wk[w] EXCEPT !.pc = "d_store"])
    /\ UNCHANGED <<load, paths, sessions, objs, store, tmp, upload, clock,
                   nextId, issued, restarts>>

\* deps.py:119, storage.py:79-82  session_store.delete; sqlite may raise
DeleteStore(w) ==
    /\ wk[w].pc = "d_store"
    /\ \/ /\ store' = [store EXCEPT ![wk[w].sid] = NoRecord]
          /\ Return(w)
       \/ /\ store' = store
          /\ Raise(w, "StorageError")
    /\ UNCHANGED <<load, paths, sessions, objs, content, tmp, upload, clock,
                   nextId, issued, restarts>>

\* --------------------------------------------------------------- edit route
\* routes/documents.py:118  session["page_manipulator"].delete_page(page_num)
\* on the document of the entry get_session returned.  fitz refuses to work
\* on a closed document and to delete the only page.  The route then calls
\* persist_session_document (line 119).
EditPage(w) ==
    /\ wk[w].pc = "e_edit"
    /\ LET h == wk[w].ref IN
       IF objs[h].open /\ objs[h].pages > 1
          THEN /\ objs' = [objs EXCEPT ![h].pages = @ - 1]
               /\ Goto(w, [wk[w] EXCEPT !.pc = "p_call", !.op = "persist",
                                        !.ref = 0, !.edited = TRUE,
                                        !.wrote = {}])
          ELSE /\ objs' = objs
               /\ Raise(w, "ValueError")
    /\ UNCHANGED <<load, paths, sessions, store, content, tmp, upload, clock,
                   nextId, issued, restarts>>

\* deps.py:145  session = get_session(session_id), called from the route
PersistCall(w) ==
    /\ wk[w].pc = "p_call"
    /\ Goto(w, [wk[w] EXCEPT !.pc = IF Hit(wk[w].sid) THEN "g_ret"
                                                        ELSE "g_load"])
    /\ UNCHANGED <<load, paths, sessions, objs, store, content, tmp, upload,
                   clock, nextId, issued, restarts>>

\* ------------------------------------------------ persist_session_document
\* The handler w has executed the statement at its pc and carries locals r.
PersistStep(w, r) ==
    IF PersistAfter(wk[w].pc) = "p_return"
       THEN Done(w, r, "return", "none")
       ELSE Goto(w, [r EXCEPT !.pc = PersistAfter(wk[w].pc)])

\* document_manager.py:18-19  save_pdf: no document loaded
PersistChk(w) ==
    /\ wk[w].pc = "p_chk"
    /\ IF objs[wk[w].ref].open
          THEN PersistStep(w, [wk[w] EXCEPT !.doc = wk[w].ref])
          ELSE Goto(w, [wk[w] EXCEPT !.pc = "p_except",
                                     !.err = "InvalidOperationError"])
    /\ UNCHANGED <<load, paths, sessions, objs, store, content, tmp, upload,
                   clock, nextId, issued, restarts>>

\* document_manager.py:20-23  self.document.save(temp_path).  The document
\* may have been closed since the check; fitz then raises.  A save that
\* fails (disk full) leaves a truncated temporary file.
PersistSave(w) ==
    /\ wk[w].pc = "p_save"
    /\ LET i == wk[w].sid
           d == IF wk[w].doc = 0 THEN wk[w].ref ELSE wk[w].doc IN
       IF ~objs[d].open
          THEN /\ tmp' = tmp
               /\ wk' = [wk EXCEPT ![w].pc = "p_except",
                                   ![w].err = "PDFSaveError"]
               /\ ev' = Note(w, "closed_handle_used")
          ELSE \/ /\ tmp' = [tmp EXCEPT ![i] = File(clock, objs[d].pages)]
                  /\ PersistStep(w, [wk[w] EXCEPT !.wrote = @ \cup {"tmp"}])
               \/ /\ tmp' = [tmp EXCEPT ![i] = File(clock, 0)]
                  /\ Goto(w, [wk[w] EXCEPT !.pc = "p_except",
                                           !.err = "PDFSaveError",
                                           !.wrote = @ \cup {"tmp"}])
    /\ UNCHANGED <<load, paths, sessions, objs, store, content, upload,
                   clock, nextId, issued, restarts>>

\* deps.py:151  os.replace(temp_path, storage_path)
PersistReplace(w) ==
    /\ wk[w].pc = "p_replace"
    /\ LET i == wk[w].sid IN
       IF ~tmp[i].exists
          THEN /\ UNCHANGED <<content, tmp>>
               /\ Goto(w, [wk[w] EXCEPT !.pc = "p_except",
                                        !.err = "FileNotFoundError"])
          ELSE \/ /\ content' = [content EXCEPT ![i] = tmp[i]]
                  /\ tmp' = [tmp EXCEPT ![i] = NoFile]
                  /\ PersistStep(w, [wk[w] EXCEPT !.swapped = TRUE,
                                                  !.mt = tmp[i].mtime,
                                                  !.wrote = @ \cup {"content"}])
               \/ /\ UNCHANGED <<content, tmp>>
                  /\ Goto(w, [wk[w] EXCEPT !.pc = "p_except", !.err = "OSError"])
    /\ UNCHANGED <<load, paths, sessions, objs, store, upload, clock, nextId,
                   issued, restarts>>

\* deps.py:152-155  except: remove the temporary file when it exists, re-raise
PersistExcept(w) ==
    /\ wk[w].pc = "p_except"
    /\ tmp' = [tmp EXCEPT ![wk[w].sid] = NoFile]
    /\ Raise(w, wk[w].err)
    /\ UNCHANGED <<load, paths, sessions, objs, store, content, upload,
                   clock, nextId, issued, restarts>>

\* deps.py:156  now = datetime.now()
PersistNow(w) ==
    /\ wk[w].pc = "p_now"
    /\ PersistStep(w, [wk[w] EXCEPT !.now = clock])
    /\ UNCHANGED <<load, paths, sessions, objs, store, content, tmp, upload,
                   clock, nextId, issued, restarts>>

\* deps.py:157-158  session["last_modified"] = now;
\* session["page_count"] = len(doc_manager.get_document()), a TypeError when
\* the document was closed (get_document() is None)
PersistSet(w) ==
    /\ wk[w].pc = "p_set"
    /\ LET h == wk[w].ref IN
       IF objs[h].open
          THEN /\ objs' = [objs EXCEPT ![h].last_modified = wk[w].now,
                                       ![h].page_count = objs[h].pages]
               /\ PersistStep(w, [wk[w] EXCEPT !.wrote = @ \cup {"entry"}])
          ELSE /\ objs' = [objs EXCEPT ![h].last_modified = wk[w].now]
               /\ Done(w, [wk[w] EXCEPT !.wrote = @ \cup {"entry"}],
                       "raise", "TypeError")
    /\ UNCHANGED <<load, paths, sessions, store, content, tmp, upload, clock,
                   nextId, issued, restarts>>

\* An UPDATE without its WHERE clause: every row is stamped.
UpdateLastModifiedAll(st, i, t) ==
    [j \in DOMAIN st |->
        IF st[j].exists THEN [st[j] EXCEPT !.last_modified = t] ELSE st[j]]

\* storage.py:102-108  UPDATE sessions SET last_modified = ? WHERE
\* session_id = ?; no row matched is not an error
UpdateLastModified(st, i, t) ==
    IF st[i].exists THEN [st EXCEPT ![i].last_modified = t] ELSE st

\* deps.py:159  session_store.update_last_modified(session_id, now)
PersistUpdate(w) ==
    /\ wk[w].pc = "p_update"
    /\ \/ /\ store' = UpdateLastModified(store, wk[w].sid, wk[w].now)
          /\ IF PersistAfter("p_update") = "p_return"
                THEN wk' = [wk EXCEPT ![w] = Idle]
                ELSE wk' = [wk EXCEPT ![w].pc = PersistAfter("p_update"),
                                      ![w].wrote = @ \cup
                                          (IF store[wk[w].sid].exists
                                           THEN {"record"} ELSE {})]
          /\ ev' = [what |-> IF PersistAfter("p_update") = "p_return"
                              THEN "return" ELSE "none",
                    op |-> "persist", w |-> w, sid |-> wk[w].sid, name |-> 0,
                    mt |-> wk[w].mt, copied |-> FALSE,
                    swapped |-> wk[w].swapped,
                    stamped |-> store[wk[w].sid].exists, err |-> "none",
                    wrote |-> wk[w].wrote \cup
                              (IF store[wk[w].sid].exists THEN {"record"}
                               ELSE {}),
                    fault |-> wk[w].err, ref |-> wk[w].ref,
                    after |-> NoChain, edited |-> wk[w].edited,
                    old |-> {}, fresh |-> {}, absent |-> FALSE]
       \/ /\ store' = store
          /\ Raise(w, "StorageError")
    /\ UNCHANGED <<load, paths, sessions, objs, content, tmp, upload, clock,
                   nextId, issued, restarts>>

\* --------------------------------------------------- cleanup_stale_sessions
Min(S) == CHOOSE x \in S : \A y \in S : x <= y

\* A sweep that also reaps a record exactly TTL old.
StaleOrJustTTL(rec, cutoff) == rec.exists /\ rec.last_modified <= cutoff

\* deps.py:126  record.last_modified < cutoff, on the records list_all read
Stale(rec, cutoff) == rec.exists /\ rec.last_modified < cutoff

\* deps.py:123-125  cutoff = now - TTL; the records are read once.  todo holds
\* the ids of the listed records that are older than the cutoff.
CleanupTodo == {i \in Ids : Stale(store[i], clock - SESSION_TTL_HOURS)}

\* What list_all returned when the sweep began: the ids whose record was
\* older than now - TTL and the ids whose record was not.
ListedOld ==
    {i \in Ids : store[i].exists
                 /\ store[i].last_modified + SESSION_TTL_HOURS < clock}

ListedFresh ==
    {i \in Ids : store[i].exists
                 /\ store[i].last_modified + SESSION_TTL_HOURS >= clock}

\* The locals of a sweep that begins.
Sweep(op) == [Idle EXCEPT !.op = op, !.pc = "cl_check", !.todo = CleanupTodo,
                          !.old = ListedOld, !.fresh = ListedFresh]

CleanupList(w) ==
    /\ Accepts(w)
    /\ Goto(w, Sweep("cleanup"))
    /\ UNCHANGED <<load, paths, sessions, objs, store, content, tmp, upload,
                   clock, nextId, issued, restarts>>

\* deps.py:125-126, 136-141  next record; ... and record.session_id not in
\* sessions
CleanupCheck(w) ==
    /\ wk[w].pc = "cl_check"
    /\ IF wk[w].todo = {}
          THEN Done(w, [wk[w] EXCEPT !.sid = 0], "return", "none")
          ELSE LET i == Min(wk[w].todo) IN
               IF sessions[i] = 0
                  THEN Goto(w, [wk[w] EXCEPT !.pc = "cl_rm", !.sid = i])
                  ELSE Goto(w, [wk[w] EXCEPT !.todo = @ \ {i}, !.sid = i])
    /\ UNCHANGED <<load, paths, sessions, objs, store, content, tmp, upload,
                   clock, nextId, issued, restarts>>

\* deps.py:127-133  the content file is removed when it exists; a failure is
\* logged and the sweep goes on
CleanupRemove(w) ==
    /\ wk[w].pc = "cl_rm"
    /\ \/ content' = [content EXCEPT ![wk[w].sid] = NoFile]
       \/ content[wk[w].sid].exists /\ content' = content
    /\ wk' = [wk EXCEPT ![w].pc = "cl_del"]
    /\ ev' = Note(w, "reap_file")
    /\ UNCHANGED <<load, paths, sessions, objs, store, tmp, upload, clock,
                   nextId, issued, restarts>>

\* deps.py:134-135  session_store.delete(record.session_id); not in a try
CleanupDelete(w) ==
    /\ wk[w].pc = "cl_del"
    /\ \/ /\ store' = [store EXCEPT ![wk[w].sid] = NoRecord]
          /\ wk' = [wk EXCEPT ![w].pc = "cl_check", ![w].todo = @ \ {wk[w].sid}]
          /\ ev' = Note(w, "reap_record")
       \/ /\ store' = store
          /\ Raise(w, "StorageError")
    /\ UNCHANGED <<load, paths, sessions, objs, content, tmp, upload, clock,
                   nextId, issued, restarts>>

\* --------------------------------------------------------------- environment
\* The process is stopped with no request in flight and started again:
\* everything in memory is gone, files and the table stay, and the startup
\* hook (main.py:31-34) runs cleanup_stale_sessions before requests are served.
Restart ==
    /\ restarts < MaxRestarts
    /\ \A w \in Workers : wk[w].pc = "idle"
    /\ restarts' = restarts + 1
    /\ sessions' = [i \in Ids |-> 0]
    /\ objs' = [h \in Objects |-> NoObj]
    /\ wk' = [wk EXCEPT ![1] = Sweep("startup")]
    /\ ev' = IF ev.op = "persist" /\ ev.what = "return" /\ ev.edited
                THEN [NoEv EXCEPT !.w = 1,
                         !.after = <<"persist", ev.sid, objs[ev.ref].pages>>]
                ELSE NoEv
    /\ UNCHANGED <<load, paths, store, content, tmp, upload, clock, nextId,
                   issued>>

\* Time passes.
Tick ==
    /\ clock < MaxClock
    /\ clock' = clock + 1
    /\ ev' = NoEv
    /\ UNCHANGED <<load, paths, sessions, objs, store, content, tmp, upload,
                   nextId, issued, restarts, wk>>

\* ---------------------------------------------------------------------- Next
GetSession(w) ==
    \/ GetCheck(w) \/ GetLoad(w) \/ GetBuild(w) \/ GetPut(w)
    \/ GetRet(w)

CreateSession(w) ==
    \/ StartUpload(w) \/ CreateCopy(w) \/ CreateBuild(w) \/ CreateSave(w)
    \/ CreatePut(w) \/ CreateExcept(w) \/ CreateFinally(w)

DeleteSession(w) ==
    \/ DeleteCheck(w) \/ DeletePop(w) \/ DeleteClose(w)
    \/ DeleteRemove(w) \/ DeleteStore(w)

EditRoute(w) == EditPage(w) \/ PersistCall(w)

PersistSessionDocument(w) ==
    \/ PersistChk(w) \/ PersistSave(w) \/ PersistReplace(w) \/ PersistExcept(w)
    \/ PersistNow(w) \/ PersistSet(w) \/ PersistUpdate(w)

CleanupStaleSessions(w) ==
    \/ CleanupList(w) \/ CleanupCheck(w) \/ CleanupRemove(w)
    \/ CleanupDelete(w)

Next ==
    \/ \E w \in Workers :
          \/ GetSession(w) \/ CreateSession(w) \/ DeleteSession(w)
          \/ PersistSessionDocument(w) \/ CleanupStaleSessions(w)
    \/ Restart
    \/ Tick

Spec == Init /\ [][Next]_vars

\* All the requests, edit routes included, served one at a time.
NextSeq ==
    \/ Next
    \/ \E w \in Workers : EditRoute(w)

SpecSeq == InitSeq /\ [][NextSeq]_vars

\* create_session's path computation as a pure function: no request runs, the
\* id and the original filename range over Ids and Filenames.
InitPath ==
    /\ Boot
    /\ load = [handlers |-> 0, ids |-> 0, edits |-> FALSE]

NextPath == \E i \in Ids, f \in Filenames : ComposePath(i, f)

SpecPath == InitPath /\ [][NextPath]_vars

\* Uploads only, served concurrently: up to MaxSessions POST /upload requests
\* of the same original filename on NumWorkers handlers.
InitUp ==
    /\ Boot
    /\ load = [handlers |-> NumWorkers, ids |-> MaxSessions, edits |-> FALSE]

NextUp ==
    \/ \E w \in Workers : CreateSession(w)
    \/ Tick

SpecUp == InitUp /\ [][NextUp]_vars

\* =================================================================== claims
\* C1: when delete_session(id) returns, whatever the session was (warm, cold
\* or absent), id has no cache entry, no metadata record and no content file
\* (stated for a delete_session that runs while no other call is in flight).
C1_DeleteLeavesNothing ==
    (ev.what = "return" /\ ev.op = "delete"
        /\ \A w \in Workers : wk[w].pc = "idle") =>
        /\ sessions[ev.sid] = 0
        /\ ~store[ev.sid].exists
        /\ ~content[ev.sid].exists

\* C2: cleanup_stale_sessions removes the content file or the record of a
\* session only while that session has no cache entry.
C2_ReapSparesWarm ==
    ev.what \in {"reap_file", "reap_record"} => sessions[ev.sid] = 0

\* C3: every id in the session cache has its metadata record in the store.
C3_WarmHasRecord ==
    \A i \in Ids : sessions[i] # 0 => store[i].exists

\* C4: once the get_session calls are over, every document opened by a
\* hydration and not referenced by the cache has been closed.
C4_DisplacedHandleClosed ==
    (\A w \in Workers : wk[w].pc = "idle") =>
        \A h \in Objects :
            (objs[h].src = "hydrate" /\ sessions[objs[h].sid] # h) =>
                ~objs[h].open

\* C5: for each session id at most one document is open in the process.
C5_OneOpenHandle ==
    \A i \in Ids :
        Cardinality({h \in Objects : objs[h].sid = i /\ objs[h].open}) <= 1

\* C6: no step saves a document that delete_session has closed.
C6_NoUseAfterClose ==
    ev.what # "closed_handle_used"

\* C7: when create_session raises after the upload was copied into the
\* content area, the copy is gone and the new id has neither a record nor a
\* cache entry.
C7_FailedCreateCleansUp ==
    (ev.op = "create" /\ ev.what = "raise" /\ ev.copied) =>
        /\ ~content[ev.sid].exists
        /\ ~store[ev.sid].exists
        /\ sessions[ev.sid] = 0

C7_Witness ==
    /\ ev.op = "create" /\ ev.what = "raise" /\ ev.copied
    /\ ev.err = "StorageError"

\* C8: when create_session returns or raises, the upload temp file is gone.
C8_UploadRemoved ==
    (ev.op = "create" /\ ev.what \in {"return", "raise"}) =>
        ~upload[ev.name].exists

\* C9: persist_session_document writes last_modified of the record only
\* after its os.replace of the temporary file over content_path succeeded.
C9_RecordAfterSwap ==
    ev.stamped => ev.swapped

C9_Witness ==
    ev.stamped /\ ev.swapped /\ ev.what = "return"

\* C10 as claimed: when persist_session_document returns, last_modified of
\* the record is at most the mtime of the content file this call swapped in.
C10_StampAtMostMtime ==
    (ev.op = "persist" /\ ev.what = "return" /\ store[ev.sid].exists) =>
        store[ev.sid].last_modified <= ev.mt

\* C10 amended: when persist_session_document returns, last_modified of the
\* record is at least the mtime of the content file this call swapped in.
C10_StampAtLeastMtime ==
    (ev.op = "persist" /\ ev.what = "return" /\ store[ev.sid].exists) =>
        store[ev.sid].last_modified >= ev.mt

C10_Witness ==
    /\ ev.op = "persist" /\ ev.what = "return" /\ store[ev.sid].exists
    /\ store[ev.sid].last_modified > ev.mt


\* C11: the file at content_path of a session handed to a client is always
\* a complete document (the previous or the new content), never a truncated
\* one, also while persist calls for the same id overlap.
C11_ContentNeverPartial ==
    \A i \in issued : content[i].exists => Loadable(content[i])


\* C12: when save_pdf or os.replace fails inside persist_session_document,
\* the call raises that error, the temporary file is gone, and the call has
\* written neither the content file nor last_modified and page_count of the
\* cache entry nor the record.
C12_FailedPersistChangesNothing ==
    (ev.op = "persist" /\ ev.what \in {"return", "raise"}
                       /\ ev.fault # "none") =>
        /\ ev.what = "raise"
        /\ ev.err = ev.fault
        /\ ~tmp[ev.sid].exists
        /\ ev.wrote \cap {"content", "entry", "record"} = {}

C12_Witness ==
    /\ ev.op = "persist" /\ ev.what = "raise" /\ ev.fault = "OSError"
    /\ content[ev.sid].exists


\* C13: a get_session(id) issued right after create_session returned id, with
\* no step of another call in between, returns the entry create_session
\* built and cached: same storage path (same id), the page_count of the
\* document create_session opened, and that document is the only one ever
\* opened for the id.
C13_GetAfterCreate ==
    (ev.op = "get" /\ ev.what \in {"return", "raise"}
                   /\ ev.after[1] = "create") =>
        /\ ev.what = "return"
        /\ ev.ref = sessions[ev.sid]
        /\ objs[ev.ref].src = "create"
        /\ objs[ev.ref].sid = ev.sid
        /\ objs[ev.ref].page_count = objs[ev.ref].pages
        /\ {h \in Objects : objs[h].sid = ev.sid} = {ev.ref}

C13_Witness ==
    /\ ev.op = "get" /\ ev.what = "return" /\ ev.after[1] = "create"
    /\ objs[ev.ref].open


\* C14: an edit request changed the live document and its persist returned;
\* the process restarts (the cache is emptied) and get_session(id) is the
\* next call.  It returns an entry hydrated from the content file whose
\* document and page_count are those the persist saved, not the ones before
\* the edit.
C14_PersistSurvivesRestart ==
    (ev.op = "get" /\ ev.what \in {"return", "raise"}
                   /\ ev.after[1] = "persist") =>
        /\ ev.what = "return"
        /\ objs[ev.ref].sid = ev.sid
        /\ objs[ev.ref].src = "hydrate"
        /\ objs[ev.ref].pages = ev.after[3]
        /\ objs[ev.ref].page_count = ev.after[3]

C14_Witness ==
    /\ ev.op = "get" /\ ev.what = "return" /\ ev.after[1] = "persist"
    /\ ev.after[3] = MaxPages - 1
    /\ objs[ev.ref].pages = MaxPages - 1


\* C15: when cleanup_stale_sessions ends, every session that had no cache
\* entry and whose record was older than now - TTL when the sweep began has
\* neither a record nor a content file.
C15_SweepReapsStaleCold ==
    (ev.op \in {"cleanup", "startup"} /\ ev.what \in {"return", "raise"}) =>
        \A i \in ev.old :
            sessions[i] = 0 => ~store[i].exists /\ ~content[i].exists

\* C16: cleanup_stale_sessions removes neither the content file nor the
\* record of a session whose record was not older than now - TTL when the
\* sweep began, and such a session still has its record when the sweep ends.
C16_SweepLeavesFresh ==
    /\ ev.what \in {"reap_file", "reap_record"} => ev.sid \notin wk[ev.w].fresh
    /\ (ev.op \in {"cleanup", "startup"} /\ ev.what \in {"return", "raise"}) =>
           \A i \in ev.fresh : store[i].exists

C16_Witness ==
    /\ ev.op = "cleanup" /\ ev.what = "return"
    /\ \E i \in ev.fresh : /\ store[i].last_modified = clock
                            /\ content[i].exists /\ sessions[i] # 0
    /\ \E i \in ev.old : ~store[i].exists


\* C17: a get_session or persist_session_document call on an id that has
\* neither a cache entry nor a record when the call begins raises 404, and
\* the call has built no session object and written nothing to the cache,
\* the store or the content area.
C17_AbsentIdIs404 ==
    (ev.op \in {"get", "persist"} /\ ev.what \in {"return", "raise"}
                                  /\ ev.absent) =>
        /\ ev.what = "raise"
        /\ ev.err = "404"
        /\ ev.ref = 0
        /\ ev.wrote = {}

C17_Witness ==
    /\ ev.op = "persist" /\ ev.what = "raise" /\ ev.err = "404" /\ ev.absent
    /\ ev.sid \in issued


\* C18: update_last_modified fails when the id has no record, so a
\* persist_session_document that returns has updated an existing record.
C18_UpdateNeedsRecord ==
    (ev.op = "persist" /\ ev.what = "return") => ev.stamped


\* C19: when cleanup_stale_sessions ends, every stale cold record of the
\* sweep other than one whose reaping failed has been deleted: a failure on
\* one record does not stop the sweep.
C19_FailedReapDoesNotAbort ==
    (ev.op \in {"cleanup", "startup"} /\ ev.what \in {"return", "raise"}) =>
        \A i \in ev.old \ {ev.sid} : sessions[i] = 0 => ~store[i].exists


\* C20: once no call is in flight, every open document is the one of a cache
\* entry: a document opened by create_session or get_session whose entry
\* left the cache or never entered it has been closed.
C20_OpenHandleIsCached ==
    (\A w \in Workers : wk[w].pc = "idle") =>
        \A h \in Objects : objs[h].open => sessions[objs[h].sid] = h


\* C21: once no call is in flight, every record whose id has no cache entry
\* has a content file at its storage_path.
C21_ColdHasContent ==
    (\A w \in Workers : wk[w].pc = "idle") =>
        \A i \in Ids :
            (store[i].exists /\ sessions[i] = 0) => content[i].exists


\* C22: an id enters the cache only while it has a record, and an id that
\* was handed out and has neither record nor cache entry any more (deleted
\* or reaped) gets neither of them again.
C22_SessionEdges ==
    [][\A i \in Ids :
          /\ (sessions[i] = 0 /\ sessions'[i] # 0) => store'[i].exists
          /\ (i \in issued /\ sessions[i] = 0 /\ ~store[i].exists) =>
                 (sessions'[i] = 0 /\ ~store'[i].exists)]_vars


\* C23: a persist_session_document that returns leaves last_modified of the
\* record later than it found it.  The clock of the model counts hours, so
\* two persists within one reading stamp the same value; "later" is stated
\* as: never earlier than before.
C23_StampNeverGoesBack ==
    [][(ev'.op = "persist" /\ ev'.what = "return" /\ ev'.stamped) =>
          store'[ev'.sid].last_modified >= store[ev'.sid].last_modified]_vars


\* C24: for every original filename, directory components and parent
\* references included, the storage path is STORAGE_DIR, one separator, the
\* session id, "_" and the part of the filename after its last separator; that
\* last component holds no separator, so the path is a direct child of
\* STORAGE_DIR.
C24_PathIsDirectChild ==
    \A k \in 1..Len(paths) :
        LET f == paths[k].filename
            n == Len(f)
        IN  \E m \in 0..n :
               LET b == SubSeq(f, m + 1, n) IN
               /\ \A j \in 1..Len(b) : b[j] # "/"
               /\ m = 0 \/ f[m] = "/"
               /\ paths[k].path =
                      STORAGE_DIR \o <<"/", ToString(paths[k].sid), "_">> \o b

\* C24 witness: a filename with a parent reference and a directory separator
\* has been composed into a path that ends in the id, "_" and the base name.
C24_Witness ==
    \E k \in 1..Len(paths) :
        /\ paths[k].filename = <<".", ".", "/", "a">>
        /\ paths[k].path =
               STORAGE_DIR \o <<"/", ToString(paths[k].sid), "_", "a">>


\* C25: across any sequence of create_session and delete_session calls, no two
\* sessions ever created have the same storage path, also when they have the
\* same original filename and when the earlier one was deleted before the
\* later one was created.
C25_PathsDistinct ==
    \A k, l \in 1..Len(paths) :
        k # l => paths[k].path # paths[l].path

\* C25 witness: two sessions were created from the same original filename,
\* the first was created and deleted, the second has its record.
C25_Witness ==
    /\ Len(paths) = 2
    /\ paths[1].filename = paths[2].filename
    /\ paths[1].sid \in issued
    /\ ~store[paths[1].sid].exists
    /\ ~content[paths[1].sid].exists
    /\ store[paths[2].sid].exists


\* C26: when persist_session_document(id) has completed on a cached session,
\* by returning or by raising at any of its steps, the cache entry's
\* last_modified equals the record's last_modified.
C26_EntryStampIsRecordStamp ==
    (/\ ev.op = "persist"
     /\ ev.what \in {"return", "raise"}
     /\ ev.ref # 0
     /\ sessions[ev.sid] = ev.ref
     /\ store[ev.sid].exists) =>
        objs[ev.ref].last_modified = store[ev.sid].last_modified


\* C27: when a page-delete request has completed, whether its persist
\* returned or raised, the cache entry's page_count equals the number of
\* pages of the entry's open document.
C27_PageCountIsLive ==
    (/\ ev.what \in {"return", "raise"}
     /\ ev.edited
     /\ sessions[ev.sid] # 0
     /\ objs[sessions[ev.sid]].open) =>
        objs[sessions[ev.sid]].page_count = objs[sessions[ev.sid]].pages


\* C28: once delete_session(id) has returned, the next step of a
\* persist_session_document(id) that was in progress creates neither the
\* content file, nor the temp file, nor the record of id.
C28_PersistAfterDeleteCreatesNothing ==
    [][\A w \in Workers :
          (/\ ev.op = "delete" /\ ev.what = "return"
           /\ wk[w].op = "persist" /\ wk[w].sid = ev.sid
           /\ wk'[w] # wk[w]) =>
              /\ content'[ev.sid].exists => content[ev.sid].exists
              /\ tmp'[ev.sid].exists => tmp[ev.sid].exists
              /\ store'[ev.sid].exists => store[ev.sid].exists]_vars


\* C29: when an upload request ends while uploads of the same original
\* filename overlap, it has not failed for want of its temp input, it has not
\* been refused as unloadable unless its own bytes were, and when it succeeded
\* the content file of its session holds its own upload's bytes.
C29_UploadsIndependent ==
    [][\A w \in Workers :
          (wk[w].op = "create" /\ wk[w].pc # "idle" /\ wk'[w].pc = "idle") =>
              /\ ev'.err # "FileNotFoundError"
              /\ ev'.err = "PDFLoadError" => wk[w].own = 0
              /\ ev'.what = "return" =>
                     content'[wk[w].sid].pages = wk[w].own]_vars


\* C30: every step of get_session, persist_session_document or
\* delete_session on one id (the calls the page-delete route makes included)
\* leaves the cache entry, the record and the content file of every other id
\* as they were.
C30_OtherIdsUntouched ==
    [][\A w \in Workers :
          LET r == IF wk[w].pc = "idle" THEN wk'[w] ELSE wk[w] IN
          (wk'[w] # wk[w] /\ r.op \in {"get", "persist", "delete", "edit"}) =>
              \A j \in Ids \ {r.sid} :
                  /\ sessions'[j] = sessions[j]
                  /\ sessions[j] # 0 => objs'[sessions[j]] = objs[sessions[j]]
                  /\ store'[j] = store[j]
                  /\ content'[j] = content[j]]_vars

\* C30 witness: a persist on one id has just returned, having stamped its
\* record, while another id is cached with a record and a content file and
\* an older last_modified.
C30_Witness ==
    /\ ev.op = "persist" /\ ev.what = "return" /\ ev.stamped
    /\ \E j \in Ids \ {ev.sid} :
          /\ sessions[j] # 0
          /\ store[j].exists
          /\ content[j].exists
          /\ store[j].last_modified < store[ev.sid].last_modified

=============================================================================
